---- MODULE Spec2Model ----
(***************************************************************************)
(* Model of the Edge Function deployment pipeline of                       *)
(* internal/functions/deploy/deploy.go: Run / RunDefault resolve the slug  *)
(* list, deployAll walks it in order, deployOne bundles a slug once and    *)
(* uploads it under backoff.Retry, deployFunction runs the                 *)
(* probe / create / update protocol against the platform.                  *)
(*                                                                         *)
(* One deployFunction call is split at its network requests (probe, then   *)
(* create or update), so that the requests of one attempt can be counted.  *)
(* The platform, the bundler, the filesystem and the caller's context are  *)
(* the environment: their answers are drawn nondeterministically.          *)
(***************************************************************************)
EXTENDS Integers, Sequences, FiniteSets, TLC

\* ------------------------------------------------------------------ bounds

\* Longest slug list handed to Run.
MaxSlugs == 3

\* Longest raw bundle (in bytes) in the step-by-step model of bundleFunction.
MaxWrapLen == 3

\* Longest raw bundle (in bytes) the bundler writes to output.eszip.
MaxBundleLen == 1

\* Bytes the HTTP transport takes from a request body in one read.
ReadChunk == 4

\* --------------------------------------------------------------- constants

\* backoff.WithMaxRetries(backoff.NewExponentialBackOff(), 3)
MaxRetries == 3

\* compressedEszipMagicId = "EZBR", as ASCII bytes.
compressedEszipMagicId == <<69, 90, 66, 82>>

\* Slug names: two that match utils.FuncSlugPattern and one that does not.
ValidSlugs == {"a", "b"}

InvalidSlugs == {"@"}

SlugNames == ValidSlugs \cup InvalidSlugs

\* Byte values the bundler's output is drawn from (the pipeline never
\* inspects them).
Bytes == {7}

\* ----------------------------------------------------------------- helpers

SeqUpTo(S, n) == UNION {[1..k -> S] : k \in 0..n}

\* What can be left of s after whole chunks, or all of it, have been read.
Suffixes(s) ==
    {SubSeq(s, k + 1, Len(s)) : k \in {j \in 0..Len(s) : j % ReadChunk = 0 \/ j = Len(s)}}

Positions(s) == 1..Len(s)

\* utils.FuncSlugPattern.MatchString / utils.ValidateFunctionSlug == nil
FuncSlugPattern(slug) == slug \in ValidSlugs

\* The sorted, duplicate-free listings afero.Glob can return for
\* supabase/functions/*/index.ts (parent directory names, in path order).
GlobListings ==
    { <<>>, <<"@">>, <<"a">>, <<"b">>, <<"@", "a">>, <<"@", "b">>,
      <<"a", "b">>, <<"@", "a", "b">> }

RECURSIVE FilterSlugs(_)
FilterSlugs(paths) ==
    IF paths = <<>> THEN <<>>
    ELSE IF FuncSlugPattern(Head(paths))
         THEN <<Head(paths)>> \o FilterSlugs(Tail(paths))
         ELSE FilterSlugs(Tail(paths))

\* Discovery that keeps every matched directory.
GetFunctionSlugsUnfiltered(paths) == paths

\* GetFunctionSlugs: the directory names that match the pattern, in order.
GetFunctionSlugs(paths) == FilterSlugs(paths)

\* brotli.Writer over the whole input, closed: a stream header, one
\* meta-block carrying the length and the bytes, and the final empty block.
BrotliEncode(X) ==
    IF X = <<>> THEN <<6>> ELSE <<11, Len(X)>> \o X \o <<3>>

\* bundleFunction lines 159-166: the magic tag, then the compressed stream.
WrapEszip(X) == compressedEszipMagicId \o BrotliEncode(X)

Bundles == SeqUpTo(Bytes, MaxBundleLen)

\* ------------------------------------------------------------------- state

VARIABLES
    entry,          \* "Run" or "RunDefault": the entry point called
    argSlugs,       \* Run's slugs argument
    fsDirs,         \* parent directories of the index.ts files Glob matches
    pc,             \* position of the single thread of control
    slugs,          \* deployAll's slugs argument
    idx,            \* position of deployAll's loop (1-based)
    result,         \* what Run / RunDefault returned ("none" while running)
    ctxDone,        \* the caller's context has been cancelled
    platform,       \* slugs of the functions that exist on the platform
    compressedBody, \* unread bytes of eszip.compressedBody
    numTries,       \* retries the backoff policy has handed out
    attemptErr,     \* what the current deployFunction call returned
    probeStatus,    \* answer to the current attempt's probe
    \* observations (history the claims are stated on)
    artifact,       \* the bytes bundleFunction returned for this slug
    reqBody,        \* body carried by this attempt's create / update request
    reqResp,        \* answer to this attempt's create / update request
    reqEffect,      \* this attempt's create was applied by the platform
    creates,        \* create requests issued in this attempt
    updates,        \* update requests issued in this attempt
    lastBranch,     \* what the previous attempt of this deployOne did
    attempts,       \* deployFunction calls of this deployOne
    probes,         \* probe requests of this deployOne
    reqs,           \* create + update requests of this deployOne
    all503,         \* every probe of this deployOne was answered 503
    bundleCalls,    \* bundleFunction calls of this deployOne
    bundleOut,      \* how this deployOne's bundleFunction ended
    dockerRuns,     \* bundler invocations of this deployOne
    created,        \* per slug: creates the platform applied
    bundledPos,     \* positions whose bundleFunction was called
    uploadedPos,    \* positions for which a request was issued
    deployedPos,    \* positions whose deployOne returned nil
    failedPos,      \* position whose deployOne returned an error (0: none)
    failErr,        \* the error that deployOne returned
    fsTouched,      \* the filesystem has been accessed
    errSlug,        \* the slug an invalid-slug error names ("" otherwise)
    discovered,     \* GetFunctionSlugs has returned its list
    tempDirs,       \* slugs whose temporary workspace .output_<slug> exists
    removal,        \* bundleFunction's deferred RemoveAll: none, ok or failed
    printed,        \* success confirmations printed by this deployOne
    cancelAt,       \* where the context was cancelled ("none" before)
    cancelPos,      \* deployAll's position when it was cancelled
    cancelAttempts, \* attempts of that deployOne when it was cancelled
    rawBundle,      \* the bytes of output.eszip bundleFunction read
    brw,            \* input the brotli writer holds and has not emitted
    defers,         \* bundleFunction's deferred calls, the last registered first
    noVerifyJWT,    \* Run's noVerifyJWT argument: "nil", "true" or "false"
    functionsConfig, \* verify_jwt of each function in the loaded config
    fcVerifyJWT,    \* fc.VerifyJWT of this deployOne ("none" before line 217)
    jwtSent,        \* verify_jwt values this deployOne's requests carried
    linkPc,         \* position of the goroutine that runs link.Run
    spawned,        \* goroutines LinkServices has started
    wg,             \* counter of LinkServices' WaitGroup
    taskPc,         \* position of each service task
    taskAns,        \* what each task's service answered ("none" before)
    taskErr,        \* error each task's function returned ("none" before)
    updatedConfig,  \* the package variable updatedConfig, field by field
    poolerConn,     \* utils.Config.Db.Pooler.ConnectionString
    files,          \* content of the files link writes ("absent" before)
    accesses,       \* <<task, location, kind>> of the tasks' shared accesses
    dbLink,         \* linkDatabase: "none", "ok" or "err"
    linkResult      \* what link.Run returned ("none" before)

inputVars == <<entry, argSlugs, fsDirs, noVerifyJWT, functionsConfig>>

ctlVars == <<pc, slugs, idx, result>>

attemptVars == <<attemptErr, probeStatus, reqBody, reqResp, reqEffect, creates, updates>>

oneVars == <<lastBranch, attempts, probes, reqs, all503, bundleCalls, bundleOut,
             dockerRuns, artifact, numTries>>

posVars == <<created, bundledPos, uploadedPos, deployedPos, failedPos, failErr>>

runVars == <<fsTouched, errSlug, discovered>>

wsVars == <<tempDirs, removal>>

cancelVars == <<cancelAt, cancelPos, cancelAttempts>>

wrapVars == <<rawBundle, brw, defers>>

jwtVars == <<fcVerifyJWT, jwtSent>>

linkVars == <<linkPc, spawned, wg, taskPc, taskAns, taskErr, updatedConfig,
              poolerConn, files, accesses, dbLink, linkResult>>

obsVars == <<runVars, wsVars, cancelVars, printed, wrapVars, jwtVars, linkVars>>

vars == <<inputVars, ctlVars, ctxDone, platform, compressedBody, attemptVars,
          oneVars, posVars, obsVars>>

BundleErrs == {"getwd", "mkdir", "importmap", "docker", "open", "compress"}

UploadErrs == {"retrieve", "unexpected", "createTransport", "createFailed",
               "updateTransport", "updateFailed"}

CtxErr == "ctx"

slug == slugs[idx]

\* The six service tasks of link.LinkServices, in the order their goroutines
\* are started.
TaskOrder ==
    <<"linkDatabaseVersion", "linkPostgrest", "linkPooler",
      "linkPostgrestVersion", "linkGotrueVersion", "linkStorageVersion">>

Tasks == {TaskOrder[i] : i \in DOMAIN TaskOrder}

VersionTasks ==
    {"linkDatabaseVersion", "linkPostgrestVersion", "linkGotrueVersion",
     "linkStorageVersion"}

\* The file each version task writes.
VersionPath(t) ==
    CASE t = "linkDatabaseVersion"  -> "PostgresVersionPath"
      [] t = "linkPostgrestVersion" -> "RestVersionPath"
      [] t = "linkGotrueVersion"    -> "GotrueVersionPath"
      [] t = "linkStorageVersion"   -> "StorageVersionPath"

Paths ==
    {VersionPath(t) : t \in VersionTasks} \cup {"PoolerUrlPath", "ProjectRefPath"}

\* link.Run has not been called: no goroutine, an empty updatedConfig, the
\* local pooler connection string, no file written.
LinkInit ==
    /\ linkPc = "start"
    /\ spawned = 0
    /\ wg = 0
    /\ taskPc = [t \in Tasks |-> "idle"]
    /\ taskAns = [t \in Tasks |-> "none"]
    /\ taskErr = [t \in Tasks |-> "none"]
    /\ updatedConfig = [Api |-> "nil", Db |-> "nil", Pooler |-> "nil"]
    /\ poolerConn = "local"
    /\ files = [f \in Paths |-> "absent"]
    /\ accesses = {}
    /\ dbLink = "none"
    /\ linkResult = "none"

\* The state in which an entry point is called: nothing has run yet.
InitState ==
    /\ pc = entry
    /\ slugs = <<>>
    /\ idx = 0
    /\ result = "none"
    /\ ctxDone = FALSE
    /\ compressedBody = <<>>
    /\ numTries = 0
    /\ attemptErr = "none"
    /\ probeStatus = "none"
    /\ artifact = <<>>
    /\ reqBody = <<>>
    /\ reqResp = "none"
    /\ reqEffect = FALSE
    /\ creates = 0
    /\ updates = 0
    /\ lastBranch = "none"
    /\ attempts = 0
    /\ probes = 0
    /\ reqs = 0
    /\ all503 = TRUE
    /\ bundleCalls = 0
    /\ bundleOut = "none"
    /\ dockerRuns = 0
    /\ created = [s \in ValidSlugs |-> 0]
    /\ bundledPos = {}
    /\ uploadedPos = {}
    /\ deployedPos = {}
    /\ failedPos = 0
    /\ failErr = "none"
    /\ fsTouched = FALSE
    /\ errSlug = ""
    /\ discovered = FALSE
    /\ tempDirs = {}
    /\ removal = "none"
    /\ printed = 0
    /\ cancelAt = "none"
    /\ cancelPos = 0
    /\ cancelAttempts = 0
    /\ rawBundle = <<>>
    /\ brw = <<>>
    /\ defers = <<>>
    /\ fcVerifyJWT = "none"
    /\ jwtSent = {}
    /\ LinkInit

Init ==
    /\ entry \in {"Run", "RunDefault"}
    /\ argSlugs \in (IF entry = "Run" THEN SeqUpTo(SlugNames, MaxSlugs) ELSE {<<>>})
    \* the listing is read only when no slug is given
    /\ fsDirs \in (IF argSlugs = <<>> THEN GlobListings ELSE {<<>>})
    /\ platform \in SUBSET ValidSlugs
    \* no flag is given and every function's config verifies the JWT
    /\ noVerifyJWT = "nil"
    /\ functionsConfig = [s \in ValidSlugs |-> "true"]
    /\ InitState

\* ------------------------------------------------- decisions of the code

\* Mutants of the switch: a 404 sent to the update branch, a 200 sent to the
\* create branch, the default branch falling into create.
ProbeBranch404Update(status) ==
    CASE status = "404" -> "update"
      [] status = "200" -> "update"
      [] OTHER -> "fail"

ProbeBranch200Create(status) ==
    CASE status = "404" -> "create"
      [] status = "200" -> "create"
      [] OTHER -> "fail"

ProbeBranchDefaultCreate(status) ==
    CASE status = "404" -> "create"
      [] status = "200" -> "update"
      [] OTHER -> "create"

\* deployFunction's switch on the probe's status code.
ProbeBranch(status) ==
    CASE status = "404" -> "create"
      [] status = "200" -> "update"
      [] OTHER -> "fail"

\* A create that takes every answered response for a success.
CreateResultAnyAnswer(resp) ==
    IF resp = "err" THEN "createTransport" ELSE "nil"

\* deployFunction after the create request: err != nil, then JSON201 == nil.
CreateResult(resp) ==
    IF resp = "err" THEN "createTransport"
    ELSE IF resp = "201" THEN "nil"
    ELSE "createFailed"

\* deployFunction after the update request: err != nil, then JSON200 == nil.
UpdateResult(resp) ==
    IF resp = "err" THEN "updateTransport"
    ELSE IF resp = "200" THEN "nil"
    ELSE "updateFailed"

\* Mutant: deployOne goes on to the upload whatever bundleFunction returned.
deployOneIgnoreBundleErr(err) == "upload"

\* deployOne after bundleFunction: an error is returned at once.
deployOneAfterBundle(err) == IF err # "nil" THEN "return" ELSE "upload"

\* Mutant: the retry budget is one too large.
RetryNextOneMore(err, tries, cancelled) ==
    IF err = "nil" THEN [act |-> "return", err |-> "nil"]
    ELSE IF cancelled THEN [act |-> "return", err |-> CtxErr]
    ELSE IF tries > MaxRetries THEN [act |-> "return", err |-> err]
    ELSE [act |-> "sleep", err |-> err]

\* backoff.Retry under WithContext(WithMaxRetries(..., 3), ctx), once the
\* operation has returned err: return, or sleep and run the operation again.
RetryNext(err, tries, cancelled) ==
    IF err = "nil" THEN [act |-> "return", err |-> "nil"]
    ELSE IF cancelled THEN [act |-> "return", err |-> CtxErr]
    ELSE IF tries >= MaxRetries THEN [act |-> "return", err |-> err]
    ELSE [act |-> "sleep", err |-> err]

\* Mutants: only the failing step is retried; the retried closure bundles again.
RetryFailingStep(failedStep) == failedStep

RetryRebundle(failedStep) == "bundle"

\* The operation backoff.Retry re-runs is the whole deployFunction call,
\* whatever step of the previous call failed.
RetryOperation(failedStep) == "probe"

\* Mutant: deployAll goes on with the next slug after an error.
deployAllContinue(err, i) ==
    [pc |-> "deployAll", idx |-> i + 1, result |-> "none"]

\* deployAll's loop body: the first error is returned, otherwise the next slug.
deployAllNext(err, i) ==
    IF err # "nil" THEN [pc |-> "done", idx |-> i, result |-> err]
    ELSE [pc |-> "deployAll", idx |-> i + 1, result |-> "none"]

\* ------------------------------------------------------- the environment

\* utils.GetFunctionConfig's VerifyJWT for a slug: an explicit flag decides
\* (verify is its negation), without one the function's config value.
GetFunctionConfig(name, flag, config) ==
    IF flag = "true" THEN "false"
    ELSE IF flag = "false" THEN "true"
    ELSE config[name]

\* A request that always asks for verification.
VerifyJwtParamDefault(fc) == "true"

\* deployOne line 233 and deployFunction lines 182, 194: the closure passes
\* *fc.VerifyJWT and the request's VerifyJwt parameter points to it.
VerifyJwtParam(fc) == fc

\* Answers to the probe: the platform reports whether the function exists,
\* or answers 503, or the request fails in transport (always so once the
\* context is cancelled).
ProbeAnswers ==
    IF ctxDone THEN {"err"}
    ELSE {"err", "503", IF slug \in platform THEN "200" ELSE "404"}

\* Answers to the create request, with whether the platform applied it.
CreateAnswers ==
    IF ctxDone THEN {[effect |-> FALSE, resp |-> "err"]}
    ELSE { [effect |-> FALSE, resp |-> "err"],
           [effect |-> TRUE,  resp |-> "err"],
           [effect |-> TRUE,  resp |-> "201"],
           [effect |-> TRUE,  resp |-> "201nobody"],
           [effect |-> FALSE, resp |-> "200"],
           [effect |-> FALSE, resp |-> "503"] }

UpdateAnswers ==
    IF ctxDone THEN {"err"} ELSE {"err", "200", "200nobody", "503"}

\* What is left unread in the buffer after a request that carried it: nothing
\* once the platform has taken the request, any suffix otherwise.
RemainingAfter(buf, taken) == IF taken THEN {<<>>} ELSE Suffixes(buf)

\* Outcomes of bundleFunction, in the order of its exits; the bundler fails
\* under a cancelled context.
BundleOutcomes ==
    IF ctxDone THEN {"getwd", "mkdir", "importmap", "docker"}
    ELSE BundleErrs \cup {"ok"}

\* ----------------------------------------------------------------- actions

\* A bundleFunction that returns the error of a failed removal.
BundleResultEscalates(out, removeOk) == IF removeOk THEN out ELSE "remove"

\* bundleFunction lines 97-101: the deferred function writes RemoveAll's error
\* to stderr and leaves the returned values as they are.
BundleResult(out, removeOk) == out

\* A sleep that neither its timer nor the context ends.
SleepNeverWakes(cancelled) == {}

\* A sleep that waits for its timer whatever happens to the context.
SleepIgnoresContext(cancelled) == {"timer"}

\* backoff.Retry's sleep is a select on ctx.Done() and the timer: blocked in
\* it, the goroutine is woken by the first of the two events, so a sleep
\* during which the context is cancelled ends with the context's case.
SleepWakes(cancelled) == IF cancelled THEN {"ctx"} ELSE {"timer"}

\* A network call may find the context cancelled while it is in flight
\* (unless it was cancelled before).
InFlightCancel == IF ctxDone THEN {FALSE} ELSE BOOLEAN

CancelInFlight(c) ==
    IF c
    THEN /\ ctxDone' = TRUE
         /\ cancelAt' = "flight"
         /\ cancelPos' = idx
         /\ cancelAttempts' = attempts
    ELSE UNCHANGED <<ctxDone, cancelVars>>

\* A deployFunction that prints its confirmation on every return.
ConfirmationAlways(err) == 1

\* deployFunction lines 208-211: the confirmation is printed after the switch,
\* which every failing branch has left with a return.
ConfirmationAfter(err) == IF err = "nil" THEN 1 ELSE 0

\* What the attempt that just ended did (for the next attempt's lastBranch).
AttemptSummary ==
    IF attempts = 0 THEN "none"
    ELSE IF creates > 0 THEN (IF reqEffect THEN "createApplied" ELSE "create")
    ELSE IF updates > 0 THEN "update"
    ELSE "noreq"

FailedStep ==
    IF creates > 0 THEN "create" ELSE IF updates > 0 THEN "update" ELSE "probe"

\* backoff.Retry calls the operation: a new deployFunction frame.
StartAttempt(at) ==
    /\ pc' = at
    /\ attempts' = attempts + 1
    /\ lastBranch' = AttemptSummary
    /\ attemptErr' = "none"
    /\ probeStatus' = "none"
    /\ reqBody' = <<>>
    /\ reqResp' = "none"
    /\ reqEffect' = FALSE
    /\ creates' = 0
    /\ updates' = 0

\* deployOne returns err into deployAll's loop.
DeployOneReturn(err) ==
    LET nx == deployAllNext(err, idx) IN
    /\ pc' = nx.pc
    /\ idx' = nx.idx
    /\ result' = nx.result
    /\ deployedPos' = IF err = "nil" THEN deployedPos \cup {idx} ELSE deployedPos
    /\ failedPos' = IF err # "nil" /\ failedPos = 0 THEN idx ELSE failedPos
    /\ failErr' = IF err # "nil" /\ failedPos = 0 THEN err ELSE failErr

\* Run without a check of the resolved list's length.
RunResolveNoEmptyCheck(loadOk, args, dirs) ==
    LET invalid == {i \in Positions(args) : ~FuncSlugPattern(args[i])}
        found == GetFunctionSlugs(dirs)
    IN  IF ~loadOk
        THEN [err |-> "loadConfig", slugs |-> <<>>, errSlug |-> "",
              discovered |-> FALSE]
        ELSE IF Len(args) = 0
        THEN [err |-> "nil", slugs |-> found, errSlug |-> "",
              discovered |-> TRUE]
        ELSE IF invalid # {}
        THEN [err |-> "invalidSlug", slugs |-> <<>>,
              errSlug |-> args[CHOOSE i \in invalid : \A k \in invalid : i <= k],
              discovered |-> FALSE]
        ELSE [err |-> "nil", slugs |-> args, errSlug |-> "",
              discovered |-> FALSE]

\* What Run decides after LoadConfigFS answered: the error it returns ("nil":
\* it goes on to deployAll), the list it works on, the slug its invalid-slug
\* error names, and whether it ran discovery. The config is loaded first; an
\* empty argument list is replaced by the discovered one, a non-empty one is
\* validated front to back; an empty resolved list is an error.
RunResolve(loadOk, args, dirs) ==
    LET invalid == {i \in Positions(args) : ~FuncSlugPattern(args[i])}
        found == GetFunctionSlugs(dirs)
    IN  IF ~loadOk
        THEN [err |-> "loadConfig", slugs |-> <<>>, errSlug |-> "",
              discovered |-> FALSE]
        ELSE IF Len(args) = 0
        THEN [err |-> IF Len(found) = 0 THEN "noFunctions" ELSE "nil",
              slugs |-> found, errSlug |-> "", discovered |-> TRUE]
        ELSE IF invalid # {}
        THEN [err |-> "invalidSlug", slugs |-> <<>>,
              errSlug |-> args[CHOOSE i \in invalid : \A k \in invalid : i <= k],
              discovered |-> FALSE]
        ELSE [err |-> "nil", slugs |-> args, errSlug |-> "",
              discovered |-> FALSE]

\* Run: load the config, resolve or validate the slugs, call deployAll.
Run ==
    /\ pc = "Run"
    /\ fsTouched' = TRUE
    /\ \E loadOk \in BOOLEAN :
        LET r == RunResolve(loadOk, argSlugs, fsDirs)
        IN  /\ errSlug' = r.errSlug
            /\ discovered' = r.discovered
            /\ slugs' = r.slugs
            /\ IF r.err # "nil"
               THEN /\ pc' = "done"
                    /\ result' = r.err
                    /\ UNCHANGED idx
               ELSE /\ pc' = "deployAll"
                    /\ idx' = 1
                    /\ result' = "none"
    /\ UNCHANGED <<jwtVars, wsVars, cancelVars, printed, wrapVars, linkVars, inputVars, ctxDone,
                   platform, compressedBody, attemptVars, oneVars, posVars>>

\* RunDefault: discover the slugs; with none, return Glob's error (nil).
RunDefault ==
    /\ pc = "RunDefault"
    /\ fsTouched' = TRUE
    /\ discovered' = TRUE
    /\ LET found == GetFunctionSlugs(fsDirs) IN
        /\ slugs' = found
        /\ IF Len(found) = 0
           THEN /\ pc' = "done"
                /\ result' = "nil"
                /\ UNCHANGED idx
           ELSE /\ pc' = "deployAll"
                /\ idx' = 1
                /\ result' = "none"
    /\ UNCHANGED <<jwtVars, errSlug, wsVars, cancelVars, printed, wrapVars, linkVars, inputVars,
                   ctxDone, platform, compressedBody, attemptVars, oneVars,
                   posVars>>

\* deployAll's loop header: the next slug's deployOne is called (its frame is
\* fresh), or the list is exhausted and deployAll returns nil.
deployAll ==
    /\ pc = "deployAll"
    /\ IF idx > Len(slugs)
       THEN /\ pc' = "done"
            /\ result' = "nil"
            /\ UNCHANGED <<compressedBody, attemptVars, oneVars, printed, jwtVars>>
       ELSE /\ pc' = "bundle"
            /\ printed' = 0
            /\ fcVerifyJWT' = "none"
            /\ jwtSent' = {}
            /\ result' = "none"
            /\ compressedBody' = <<>>
            /\ artifact' = <<>>
            /\ numTries' = 0
            /\ attemptErr' = "none"
            /\ probeStatus' = "none"
            /\ reqBody' = <<>>
            /\ reqResp' = "none"
            /\ reqEffect' = FALSE
            /\ creates' = 0
            /\ updates' = 0
            /\ lastBranch' = "none"
            /\ attempts' = 0
            /\ probes' = 0
            /\ reqs' = 0
            /\ all503' = TRUE
            /\ bundleCalls' = 0
            /\ bundleOut' = "none"
            /\ dockerRuns' = 0
    /\ UNCHANGED <<runVars, wsVars, cancelVars, wrapVars, linkVars, inputVars, slugs, idx,
                   ctxDone, platform, posVars>>

\* deployOne lines 216-225: bundleFunction as a whole, then either the error
\* is returned or the retry policy is built and the first attempt starts.
bundleFunction ==
    /\ pc = "bundle"
    /\ bundleCalls' = bundleCalls + 1
    /\ bundledPos' = bundledPos \cup {idx}
    /\ fcVerifyJWT' = GetFunctionConfig(slug, noVerifyJWT, functionsConfig)
    /\ \E out \in BundleOutcomes :
        /\ bundleOut' = out
        /\ dockerRuns' = dockerRuns +
               (IF out \in {"docker", "open", "compress", "ok"} THEN 1 ELSE 0)
        /\ \E X \in (IF out = "ok" THEN Bundles ELSE {<<>>}) :
            /\ artifact' = (IF out = "ok" THEN WrapEszip(X) ELSE <<>>)
            /\ compressedBody' = artifact'
        /\ IF deployOneAfterBundle(IF out = "ok" THEN "nil" ELSE out) = "return"
           THEN /\ DeployOneReturn(out)
                /\ UNCHANGED <<attemptVars, lastBranch, attempts, numTries>>
           ELSE /\ StartAttempt("probe")
                /\ numTries' = 0
                /\ UNCHANGED <<idx, result, deployedPos, failedPos, failErr>>
    /\ UNCHANGED <<runVars, wsVars, cancelVars, printed, wrapVars, linkVars, jwtSent,
                   inputVars, slugs, ctxDone, platform, probes, reqs, all503,
                   created, uploadedPos>>

\* deployFunction lines 172-177 and 204-206: the probe and the switch.
deployFunction_Probe ==
    /\ pc = "probe"
    /\ \E c \in InFlightCancel : \E st \in (IF c THEN {"err"} ELSE ProbeAnswers) :
        /\ CancelInFlight(c)
        /\ probeStatus' = st
        /\ all503' = (all503 /\ st = "503")
        /\ IF st = "err"
           THEN /\ attemptErr' = "retrieve"
                /\ pc' = "retry"
           ELSE IF ProbeBranch(st) = "fail"
           THEN /\ attemptErr' = "unexpected"
                /\ pc' = "retry"
           ELSE /\ attemptErr' = attemptErr
                /\ pc' = ProbeBranch(st)
    /\ probes' = probes + 1
    /\ uploadedPos' = uploadedPos \cup {idx}
    /\ printed' = printed + (IF pc' = "retry" THEN ConfirmationAfter(attemptErr') ELSE 0)
    /\ UNCHANGED <<jwtVars, runVars, wsVars, wrapVars, linkVars, inputVars, slugs, idx, result, platform, compressedBody,
                   reqBody, reqResp, reqEffect, creates, updates,
                   lastBranch, attempts, reqs, bundleCalls, bundleOut, dockerRuns, artifact,
                   numTries, created, bundledPos, deployedPos, failedPos, failErr>>

\* deployFunction lines 178-191: the create request carries what is unread
\* in the buffer and drains it.
deployFunction_Create ==
    /\ pc = "create"
    /\ \E c \in InFlightCancel :
       \E o \in (IF c THEN {a \in CreateAnswers : a.resp = "err"} ELSE CreateAnswers) :
        /\ CancelInFlight(c)
        /\ reqResp' = o.resp
        /\ reqEffect' = o.effect
        /\ platform' = (IF o.effect THEN platform \cup {slug} ELSE platform)
        /\ created' = (IF o.effect
                       THEN [created EXCEPT ![slug] = IF @ < 2 THEN @ + 1 ELSE @]
                       ELSE created)
        /\ compressedBody' \in RemainingAfter(compressedBody, o.effect)
        /\ attemptErr' = CreateResult(o.resp)
    /\ reqBody' = compressedBody
    /\ creates' = creates + 1
    /\ reqs' = reqs + 1
    /\ uploadedPos' = uploadedPos \cup {idx}
    /\ pc' = "retry"
    /\ printed' = printed + ConfirmationAfter(attemptErr')
    /\ jwtSent' = jwtSent \cup {VerifyJwtParam(fcVerifyJWT)}
    /\ UNCHANGED <<runVars, wsVars, wrapVars, linkVars, fcVerifyJWT, inputVars, slugs, idx, result, probeStatus, updates,
                   lastBranch, attempts, probes, all503, bundleCalls, bundleOut,
                   dockerRuns, artifact, numTries, bundledPos, deployedPos, failedPos, failErr>>

\* deployFunction lines 192-203: the update request, likewise.
deployFunction_Update ==
    /\ pc = "update"
    /\ \E c \in InFlightCancel : \E r \in (IF c THEN {"err"} ELSE UpdateAnswers) :
        /\ CancelInFlight(c)
        /\ reqResp' = r
        /\ compressedBody' \in RemainingAfter(compressedBody, r \in {"200", "200nobody"})
        /\ attemptErr' = UpdateResult(r)
    /\ reqEffect' = FALSE
    /\ reqBody' = compressedBody
    /\ updates' = updates + 1
    /\ reqs' = reqs + 1
    /\ uploadedPos' = uploadedPos \cup {idx}
    /\ pc' = "retry"
    /\ printed' = printed + ConfirmationAfter(attemptErr')
    /\ jwtSent' = jwtSent \cup {VerifyJwtParam(fcVerifyJWT)}
    /\ UNCHANGED <<runVars, wsVars, wrapVars, linkVars, fcVerifyJWT, inputVars, slugs, idx, result, platform, probeStatus,
                   creates, lastBranch, attempts, probes, all503, bundleCalls,
                   bundleOut, dockerRuns, artifact, numTries, created, bundledPos,
                   deployedPos, failedPos, failErr>>

\* backoff.Retry after the operation returned: return to deployOne's caller,
\* or take a retry from the policy and sleep.
backoff_Retry ==
    /\ pc = "retry"
    /\ LET nx == RetryNext(attemptErr, numTries, ctxDone) IN
        IF nx.act = "sleep"
        THEN /\ pc' = "sleep"
             /\ numTries' = numTries + 1
             /\ UNCHANGED <<idx, result, deployedPos, failedPos, failErr>>
        ELSE /\ DeployOneReturn(nx.err)
             /\ UNCHANGED numTries
    /\ UNCHANGED <<obsVars, inputVars, slugs, ctxDone, platform, compressedBody, attemptVars,
                   lastBranch, attempts, probes, reqs, all503, bundleCalls,
                   bundleOut, dockerRuns, artifact, created, bundledPos, uploadedPos>>

\* The backoff timer fires: the operation runs again.
backoff_TimerFires ==
    /\ pc = "sleep"
    /\ "timer" \in SleepWakes(ctxDone)
    /\ StartAttempt(RetryOperation(FailedStep))
    /\ UNCHANGED <<obsVars, inputVars, slugs, idx, result, ctxDone, platform, compressedBody,
                   probes, reqs, all503, bundleCalls, bundleOut, dockerRuns, artifact,
                   numTries, posVars>>

\* The context is cancelled during the sleep: Retry returns ctx.Err().
backoff_CtxDone ==
    /\ pc = "sleep"
    /\ "ctx" \in SleepWakes(ctxDone)
    /\ DeployOneReturn(CtxErr)
    /\ UNCHANGED <<obsVars, inputVars, slugs, ctxDone, platform, compressedBody, attemptVars,
                   oneVars, created, bundledPos, uploadedPos>>

\* The caller cancels the context.
Cancel ==
    /\ pc # "done"
    /\ ~ctxDone
    /\ ctxDone' = TRUE
    /\ IF pc = "sleep"
       THEN /\ cancelAt' = "sleep"
            /\ cancelPos' = idx
            /\ cancelAttempts' = attempts
       ELSE /\ cancelAt' = "other"
            /\ UNCHANGED <<cancelPos, cancelAttempts>>
    /\ UNCHANGED <<jwtVars, runVars, wsVars, printed, wrapVars, linkVars, inputVars, ctlVars, platform, compressedBody, attemptVars,
                   oneVars, posVars>>

Next ==
    \/ Run
    \/ RunDefault
    \/ deployAll
    \/ bundleFunction
    \/ deployFunction_Probe
    \/ deployFunction_Create
    \/ deployFunction_Update
    \/ backoff_Retry
    \/ backoff_TimerFires
    \/ backoff_CtxDone
    \/ Cancel

Spec == Init /\ [][Next]_vars

\* The steps of the program itself: everything but the caller's Cancel.
ProgramSteps ==
    \/ Run
    \/ RunDefault
    \/ deployAll
    \/ bundleFunction
    \/ deployFunction_Probe
    \/ deployFunction_Create
    \/ deployFunction_Update
    \/ backoff_Retry
    \/ backoff_TimerFires
    \/ backoff_CtxDone

\* The list that alternates the two functions, n slugs long.
AlternatingSlugs(n) == [i \in 1..n |-> IF i % 2 = 1 THEN "a" ELSE "b"]

\* Run over a list of one to MaxSlugs functions, or discovery of the two
\* functions by either entry point.
InitLive ==
    /\ entry \in {"Run", "RunDefault"}
    /\ argSlugs \in (IF entry = "Run"
                     THEN {<<>>} \cup {AlternatingSlugs(n) : n \in 1..MaxSlugs}
                     ELSE {<<>>})
    /\ fsDirs \in (IF argSlugs = <<>> THEN {<<"a", "b">>} ELSE {<<>>})
    /\ platform \in {{}, {"a"}}
    /\ noVerifyJWT = "nil"
    /\ functionsConfig = [s \in ValidSlugs |-> "true"]
    /\ InitState

\* The program is one goroutine of straight-line code: it takes its next
\* step whenever it has one, every bundler invocation and network call
\* returns, and a backoff sleep ends. The caller need never cancel.
FairSpec == InitLive /\ [][Next]_vars /\ WF_vars(ProgramSteps)

\* --------------------------------------------- the verify_jwt parameter

\* Run or RunDefault over the two functions, with every flag value and every
\* per-function config.
InitJWT ==
    /\ entry \in {"Run", "RunDefault"}
    /\ argSlugs \in (IF entry = "Run" THEN {<<"a", "b">>, <<"b">>} ELSE {<<>>})
    /\ fsDirs \in (IF argSlugs = <<>> THEN {<<"a", "b">>} ELSE {<<>>})
    /\ platform \in {{}, {"a"}}
    \* RunDefault hands deployAll a nil flag
    /\ noVerifyJWT \in (IF entry = "Run" THEN {"nil", "true", "false"} ELSE {"nil"})
    /\ functionsConfig \in [ValidSlugs -> {"true", "false"}]
    /\ InitState

SpecJWT == InitJWT /\ [][Next]_vars

\* ------------------------------------------- bundleFunction, step by step

\* Byte values of the raw bundles of the step-by-step model; they include the
\* values the stream encoding uses as markers.
WrapBytes == {3, 6, 11}

WrapInputs == SeqUpTo(WrapBytes, MaxWrapLen)

\* What a decoder answers for a byte sequence that is no complete stream.
Invalid == <<-1>>

\* The decoder of the stream BrotliEncode writes: the empty-stream marker, or
\* a header with the length, the bytes, and the end marker.
BrotliDecode(s) ==
    IF s = <<6>> THEN <<>>
    ELSE IF /\ Len(s) >= 4
            /\ s[1] = 11
            /\ s[2] = Len(s) - 3
            /\ s[Len(s)] = 3
         THEN SubSeq(s, 3, Len(s) - 1)
         ELSE Invalid

\* A bundleFunction that never closes the brotli writer.
NoClose(buf, pending) == buf

\* bundleFunction line 161: the deferred brw.Close() runs before the caller
\* gets the result and writes the stream of the writer's input to the buffer.
DeferredClose(buf, pending) == buf \o BrotliEncode(pending)

\* Everything a bundleFunction call leaves alone.
bundleRest ==
    <<inputVars, slugs, idx, result, ctxDone, platform, attemptVars, lastBranch,
      attempts, probes, reqs, all503, bundleCalls, numTries, posVars, runVars,
      cancelVars, printed, jwtVars, linkVars>>

\* deployOne calls bundleFunction for the one slug given to Run; no
\* workspace exists yet.
InitBundle ==
    /\ entry = "Run"
    /\ argSlugs \in {<<"a">>, <<"b">>}
    /\ fsDirs = <<>>
    /\ slugs = argSlugs
    /\ idx = 1
    /\ pc = "b_getwd"
    /\ result = "none"
    /\ ctxDone = FALSE
    /\ platform = {}
    /\ compressedBody = <<>>
    /\ numTries = 0
    /\ attemptErr = "none"
    /\ probeStatus = "none"
    /\ artifact = <<>>
    /\ reqBody = <<>>
    /\ reqResp = "none"
    /\ reqEffect = FALSE
    /\ creates = 0
    /\ updates = 0
    /\ lastBranch = "none"
    /\ attempts = 0
    /\ probes = 0
    /\ reqs = 0
    /\ all503 = TRUE
    /\ bundleCalls = 1
    /\ bundleOut = "none"
    /\ dockerRuns = 0
    /\ created = [s \in ValidSlugs |-> 0]
    /\ bundledPos = {1}
    /\ uploadedPos = {}
    /\ deployedPos = {}
    /\ failedPos = 0
    /\ failErr = "none"
    /\ fsTouched = TRUE
    /\ errSlug = ""
    /\ discovered = FALSE
    /\ tempDirs = {}
    /\ removal = "none"
    /\ printed = 0
    /\ cancelAt = "none"
    /\ cancelPos = 0
    /\ cancelAttempts = 0
    /\ rawBundle = <<>>
    /\ brw = <<>>
    /\ defers = <<>>
    /\ noVerifyJWT = "nil"
    /\ functionsConfig = [s \in ValidSlugs |-> "true"]
    /\ fcVerifyJWT = "true"
    /\ jwtSent = {}
    /\ LinkInit

\* A return statement with an error: the deferred calls run next.
bundle_Fail(err) ==
    /\ bundleOut' = err
    /\ pc' = "b_defers"

\* Lines 86-89: os.Getwd.
bundle_Getwd ==
    /\ pc = "b_getwd"
    /\ \E ok \in BOOLEAN :
        IF ok THEN pc' = "b_mkdir" /\ UNCHANGED bundleOut
        ELSE bundle_Fail("getwd")
    /\ UNCHANGED <<bundleRest, tempDirs, removal, rawBundle, brw, defers,
                   compressedBody, artifact, dockerRuns>>

\* Lines 92-101: MkdirAll of the workspace; once it exists its removal is
\* deferred.
bundle_MkdirAll ==
    /\ pc = "b_mkdir"
    /\ \E ok \in BOOLEAN :
        IF ok
        THEN /\ tempDirs' = tempDirs \cup {slug}
             /\ defers' = <<"RemoveAll">> \o defers
             /\ pc' = "b_importmap"
             /\ UNCHANGED bundleOut
        ELSE /\ bundle_Fail("mkdir")
             /\ UNCHANGED <<tempDirs, defers>>
    /\ UNCHANGED <<bundleRest, removal, rawBundle, brw, compressedBody, artifact,
                   dockerRuns>>

\* Lines 124-132: the import map is bound when a path was given.
bundle_BindImportMap ==
    /\ pc = "b_importmap"
    /\ \E r \in {"nopath", "ok", "err"} :
        IF r = "err" THEN bundle_Fail("importmap")
        ELSE pc' = "b_docker" /\ UNCHANGED bundleOut
    /\ UNCHANGED <<bundleRest, tempDirs, removal, rawBundle, brw, defers,
                   compressedBody, artifact, dockerRuns>>

\* Lines 134-151: the bundler runs and writes output.eszip to the workspace.
bundle_DockerRun ==
    /\ pc = "b_docker"
    /\ dockerRuns' = dockerRuns + 1
    /\ \E ok \in BOOLEAN :
        IF ok
        THEN /\ rawBundle' \in WrapInputs
             /\ pc' = "b_open"
             /\ UNCHANGED bundleOut
        ELSE /\ bundle_Fail("docker")
             /\ UNCHANGED rawBundle
    /\ UNCHANGED <<bundleRest, tempDirs, removal, brw, defers, compressedBody,
                   artifact>>

\* Lines 153-157: output.eszip is opened (it may be missing); its Close is
\* deferred.
bundle_Open ==
    /\ pc = "b_open"
    /\ \E ok \in BOOLEAN :
        IF ok
        THEN /\ defers' = <<"FileClose">> \o defers
             /\ pc' = "b_wrap"
             /\ UNCHANGED bundleOut
        ELSE /\ bundle_Fail("open")
             /\ UNCHANGED defers
    /\ UNCHANGED <<bundleRest, tempDirs, removal, rawBundle, brw, compressedBody,
                   artifact, dockerRuns>>

\* Lines 159-161: the buffer starts with the magic tag, the brotli writer
\* is put over it and its Close is deferred.
bundle_NewWriter ==
    /\ pc = "b_wrap"
    /\ compressedBody' = compressedEszipMagicId
    /\ brw' = <<>>
    /\ defers' = <<"brwClose">> \o defers
    /\ pc' = "b_copy"
    /\ UNCHANGED <<bundleRest, tempDirs, removal, rawBundle, artifact, bundleOut,
                   dockerRuns>>

\* Lines 163-168: io.Copy hands the file to the writer; a read error leaves
\* the writer with a prefix and is returned, otherwise the result is returned.
bundle_Copy ==
    /\ pc = "b_copy"
    /\ \E n \in 0..Len(rawBundle) :
       \E ok \in (IF n = Len(rawBundle) THEN BOOLEAN ELSE {FALSE}) :
        /\ brw' = SubSeq(rawBundle, 1, n)
        /\ bundle_Fail(IF ok THEN "ok" ELSE "compress")
    /\ UNCHANGED <<bundleRest, tempDirs, removal, rawBundle, defers,
                   compressedBody, artifact, dockerRuns>>

\* The deferred calls run, the last registered first.
bundle_Deferred ==
    /\ pc = "b_defers"
    /\ defers # <<>>
    /\ defers' = Tail(defers)
    /\ CASE Head(defers) = "brwClose" ->
              /\ compressedBody' = DeferredClose(compressedBody, brw)
              /\ brw' = <<>>
              /\ UNCHANGED <<tempDirs, removal, bundleOut>>
         [] Head(defers) = "FileClose" ->
              UNCHANGED <<compressedBody, brw, tempDirs, removal, bundleOut>>
         [] Head(defers) = "RemoveAll" ->
              /\ \E removeOk \in BOOLEAN :
                   /\ tempDirs' = (IF removeOk THEN tempDirs \ {slug} ELSE tempDirs)
                   /\ removal' = (IF removeOk THEN "ok" ELSE "failed")
                   /\ bundleOut' = BundleResult(bundleOut, removeOk)
              /\ UNCHANGED <<compressedBody, brw>>
    /\ UNCHANGED <<bundleRest, pc, rawBundle, artifact, dockerRuns>>

\* bundleFunction returns into deployOne (lines 218-223): with an error
\* deployOne returns it, otherwise it sizes the body and starts the upload.
bundle_Return ==
    /\ pc = "b_defers"
    /\ defers = <<>>
    /\ artifact' = (IF bundleOut = "ok" THEN compressedBody ELSE <<>>)
    /\ pc' = (IF deployOneAfterBundle(IF bundleOut = "ok" THEN "nil" ELSE bundleOut)
                  = "return"
              THEN "b_returned" ELSE "b_upload")
    /\ UNCHANGED <<bundleRest, tempDirs, removal, rawBundle, brw, defers,
                   compressedBody, bundleOut, dockerRuns>>

NextBundle ==
    \/ bundle_Getwd
    \/ bundle_MkdirAll
    \/ bundle_BindImportMap
    \/ bundle_DockerRun
    \/ bundle_Open
    \/ bundle_NewWriter
    \/ bundle_Copy
    \/ bundle_Deferred
    \/ bundle_Return

SpecBundle == InitBundle /\ [][NextBundle]_vars

\* ------------------------------------------------- link.Run, step by step

\* Everything of the deploy package, which a step of link leaves alone.
linkRest ==
    <<inputVars, ctlVars, ctxDone, platform, compressedBody, attemptVars,
      oneVars, posVars, runVars, wsVars, cancelVars, printed, wrapVars, jwtVars>>

\* What a task's service can answer: an error, or a payload.  The settings
\* tasks learn whether the remote settings differ from the local ones; the
\* pooler answer carries a connection string or none.
Answers(t) ==
    CASE t \in VersionTasks  -> {"err", "version"}
      [] t = "linkPostgrest" -> {"err", "same", "changed"}
      [] t = "linkPooler"    -> {"err", "same", "changed", "sameConn", "changedConn"}

\* The step a task takes after an answer that is not an error.
AfterCall(t) ==
    CASE t \in VersionTasks  -> "WriteFile"
      [] t = "linkPostgrest" -> "updateApiConfig"
      [] t = "linkPooler"    -> "updatePoolerConfig"

WaitReturnsEarly(n) == TRUE

\* wg.Wait returns when the counter is zero.
WaitReady(n) == n = 0

PoolerWholeStruct == {"Api", "Db", "Pooler"}

\* The fields of updatedConfig that updatePoolerConfig assigns.
PoolerFields == {"Pooler"}

\* A goroutine of LinkServices ends: its function returned e, the deferred
\* wg.Done runs.
task_Finish(t, e) ==
    /\ taskPc' = [taskPc EXCEPT ![t] = "done"]
    /\ taskErr' = [taskErr EXCEPT ![t] = e]
    /\ wg' = wg - 1

InitLink ==
    /\ entry = "link.Run"
    /\ argSlugs = <<>>
    /\ fsDirs = <<>>
    /\ platform = {}
    /\ noVerifyJWT = "nil"
    /\ functionsConfig = [s \in ValidSlugs |-> "true"]
    /\ InitState

\* link.Run asks for the project's API keys; without them it returns.
link_GetApiKeys ==
    /\ linkPc = "start"
    /\ \E ok \in BOOLEAN :
          IF ok
          THEN /\ linkPc' = "LinkServices"
               /\ UNCHANGED linkResult
          ELSE /\ linkPc' = "returned"
               /\ linkResult' = "GetApiKeys"
    /\ UNCHANGED <<spawned, wg, taskPc, taskAns, taskErr, updatedConfig,
                   poolerConn, files, accesses, dbLink, linkRest>>

\* wg.Add(6)
LinkServices_Add ==
    /\ linkPc = "LinkServices"
    /\ wg' = Len(TaskOrder)
    /\ linkPc' = "go"
    /\ UNCHANGED <<spawned, taskPc, taskAns, taskErr, updatedConfig,
                   poolerConn, files, accesses, dbLink, linkResult, linkRest>>

\* One go statement: the next task starts running.  After the last one the
\* caller reaches wg.Wait.
LinkServices_Go ==
    /\ linkPc = "go"
    /\ spawned < Len(TaskOrder)
    /\ spawned' = spawned + 1
    /\ taskPc' = [taskPc EXCEPT ![TaskOrder[spawned + 1]] = "call"]
    /\ linkPc' = IF spawned + 1 = Len(TaskOrder) THEN "Wait" ELSE "go"
    /\ UNCHANGED <<wg, taskAns, taskErr, updatedConfig, poolerConn, files,
                   accesses, dbLink, linkResult, linkRest>>

\* wg.Wait returns, and LinkServices with it.
LinkServices_Wait ==
    /\ linkPc = "Wait"
    /\ WaitReady(wg)
    /\ linkPc' = "database"
    /\ UNCHANGED <<spawned, wg, taskPc, taskAns, taskErr, updatedConfig,
                   poolerConn, files, accesses, dbLink, linkResult, linkRest>>

\* What updatePostgresConfig touches when the major version differs: it
\* copies utils.Config.Db, pooler settings included, into updatedConfig.Db.
\* The accesses count as concurrent ones while a task is still running.
DatabaseAccesses ==
    IF \E t \in Tasks : taskPc[t] # "done"
    THEN {<<"Run", "utils.Config.Db.Pooler", "read">>,
          <<"Run", "utils.Config.Db.Pooler.ConnectionString", "read">>,
          <<"Run", "updatedConfig.Db", "write">>}
    ELSE {}

\* With a password configured link.Run links the database: once connected,
\* updatePostgresConfig may change updatedConfig.Db; a failure to connect or
\* to create the migration table ends link.Run.
link_Database ==
    /\ linkPc = "database"
    /\ \E password \in BOOLEAN, ok \in BOOLEAN, changed \in BOOLEAN :
          IF password
          THEN /\ updatedConfig' =
                     IF changed
                     THEN [updatedConfig EXCEPT !.Db = "copy"]
                     ELSE updatedConfig
               /\ accesses' =
                     IF changed THEN accesses \cup DatabaseAccesses ELSE accesses
               /\ IF ok
                  THEN /\ dbLink' = "ok"
                       /\ linkPc' = "WriteRef"
                       /\ UNCHANGED linkResult
                  ELSE /\ dbLink' = "err"
                       /\ linkResult' = "linkDatabase"
                       /\ linkPc' = "returned"
          ELSE /\ linkPc' = "WriteRef"
               /\ UNCHANGED <<dbLink, updatedConfig, linkResult, accesses>>
    /\ UNCHANGED <<spawned, wg, taskPc, taskAns, taskErr, poolerConn, files,
                   linkRest>>

\* link.Run saves the project ref and returns what the write returned.
link_WriteRef ==
    /\ linkPc = "WriteRef"
    /\ \E ok \in BOOLEAN :
          IF ok
          THEN /\ files' = [files EXCEPT !["ProjectRefPath"] = "ref"]
               /\ linkResult' = "nil"
          ELSE /\ linkResult' = "WriteFile"
               /\ UNCHANGED files
    /\ linkPc' = "returned"
    /\ UNCHANGED <<spawned, wg, taskPc, taskAns, taskErr, updatedConfig,
                   poolerConn, accesses, dbLink, linkRest>>

\* A task calls its service.  An error ends the task.
task_Call(t) ==
    /\ taskPc[t] = "call"
    /\ \E ans \in Answers(t) :
          /\ taskAns' = [taskAns EXCEPT ![t] = ans]
          /\ IF ans = "err"
             THEN task_Finish(t, "err")
             ELSE /\ taskPc' = [taskPc EXCEPT ![t] = AfterCall(t)]
                  /\ UNCHANGED <<taskErr, wg>>
    /\ UNCHANGED <<linkPc, spawned, updatedConfig, poolerConn, files,
                   accesses, dbLink, linkResult, linkRest>>

\* A version task writes the version to its file.
task_WriteVersion(t) ==
    /\ t \in VersionTasks
    /\ taskPc[t] = "WriteFile"
    /\ accesses' = accesses \cup {<<t, VersionPath(t), "write">>}
    /\ \E ok \in BOOLEAN :
          IF ok
          THEN /\ files' = [files EXCEPT ![VersionPath(t)] = taskAns[t]]
               /\ task_Finish(t, "nil")
          ELSE /\ UNCHANGED files
               /\ task_Finish(t, "err")
    /\ UNCHANGED <<linkPc, spawned, taskAns, updatedConfig, poolerConn,
                   dbLink, linkResult, linkRest>>

\* updateApiConfig copies utils.Config.Api and compares.
linkPostgrest_Read ==
    /\ taskPc["linkPostgrest"] = "updateApiConfig"
    /\ accesses' = accesses \cup {<<"linkPostgrest", "utils.Config.Api", "read">>}
    /\ IF taskAns["linkPostgrest"] = "changed"
       THEN /\ taskPc' = [taskPc EXCEPT !["linkPostgrest"] = "setApi"]
            /\ UNCHANGED <<taskErr, wg>>
       ELSE task_Finish("linkPostgrest", "nil")
    /\ UNCHANGED <<linkPc, spawned, taskAns, updatedConfig, poolerConn, files,
                   dbLink, linkResult, linkRest>>

\* updatedConfig.Api = copy
linkPostgrest_Write ==
    /\ taskPc["linkPostgrest"] = "setApi"
    /\ accesses' = accesses \cup {<<"linkPostgrest", "updatedConfig.Api", "write">>}
    /\ updatedConfig' = [updatedConfig EXCEPT !.Api = "copy"]
    /\ task_Finish("linkPostgrest", "nil")
    /\ UNCHANGED <<linkPc, spawned, taskAns, poolerConn, files, dbLink,
                   linkResult, linkRest>>

\* updatePoolerConfig copies utils.Config.Db.Pooler, connection string
\* included, and compares.
linkPooler_Read ==
    /\ taskPc["linkPooler"] = "updatePoolerConfig"
    /\ accesses' = accesses \cup
          {<<"linkPooler", "utils.Config.Db.Pooler", "read">>,
           <<"linkPooler", "utils.Config.Db.Pooler.ConnectionString", "read">>}
    /\ taskPc' = [taskPc EXCEPT !["linkPooler"] =
          IF taskAns["linkPooler"] \in {"changed", "changedConn"}
          THEN "setPooler" ELSE "ConnectionString"]
    /\ UNCHANGED <<linkPc, spawned, wg, taskAns, taskErr, updatedConfig,
                   poolerConn, files, dbLink, linkResult, linkRest>>

\* updatedConfig.Pooler = copy
linkPooler_Write ==
    /\ taskPc["linkPooler"] = "setPooler"
    /\ accesses' = accesses \cup
          {<<"linkPooler", "updatedConfig." \o f, "write">> : f \in PoolerFields}
    /\ updatedConfig' =
          [f \in DOMAIN updatedConfig |->
              IF f \in PoolerFields
              THEN (IF f = "Pooler" THEN "copy" ELSE "nil")
              ELSE updatedConfig[f]]
    /\ taskPc' = [taskPc EXCEPT !["linkPooler"] = "ConnectionString"]
    /\ UNCHANGED <<linkPc, spawned, wg, taskAns, taskErr, poolerConn, files,
                   dbLink, linkResult, linkRest>>

\* With a connection string in the answer linkPooler stores it in
\* utils.Config; without one it returns nil.
linkPooler_SetConn ==
    /\ taskPc["linkPooler"] = "ConnectionString"
    /\ IF taskAns["linkPooler"] \in {"sameConn", "changedConn"}
       THEN /\ accesses' = accesses \cup
                  {<<"linkPooler", "utils.Config.Db.Pooler.ConnectionString", "write">>}
            /\ poolerConn' = "remote"
            /\ taskPc' = [taskPc EXCEPT !["linkPooler"] = "WriteFile"]
            /\ UNCHANGED <<taskErr, wg>>
       ELSE /\ task_Finish("linkPooler", "nil")
            /\ UNCHANGED <<accesses, poolerConn>>
    /\ UNCHANGED <<linkPc, spawned, taskAns, updatedConfig, files, dbLink,
                   linkResult, linkRest>>

\* linkPooler writes the stored connection string to the pooler-URL file.
linkPooler_WriteUrl ==
    /\ taskPc["linkPooler"] = "WriteFile"
    /\ accesses' = accesses \cup
          {<<"linkPooler", "utils.Config.Db.Pooler.ConnectionString", "read">>,
           <<"linkPooler", "PoolerUrlPath", "write">>}
    /\ \E ok \in BOOLEAN :
          IF ok
          THEN /\ files' = [files EXCEPT !["PoolerUrlPath"] = poolerConn]
               /\ task_Finish("linkPooler", "nil")
          ELSE /\ UNCHANGED files
               /\ task_Finish("linkPooler", "err")
    /\ UNCHANGED <<linkPc, spawned, taskAns, updatedConfig, poolerConn,
                   dbLink, linkResult, linkRest>>

NextLink ==
    \/ link_GetApiKeys
    \/ LinkServices_Add
    \/ LinkServices_Go
    \/ LinkServices_Wait
    \/ link_Database
    \/ link_WriteRef
    \/ \E t \in Tasks : task_Call(t)
    \/ \E t \in Tasks : task_WriteVersion(t)
    \/ linkPostgrest_Read
    \/ linkPostgrest_Write
    \/ linkPooler_Read
    \/ linkPooler_Write
    \/ linkPooler_SetConn
    \/ linkPooler_WriteUrl

SpecLink == InitLink /\ [][NextLink]_vars

\* ------------------------------------------------------------------ claims

\* deployFunction of the current attempt has returned.
AttemptEnded == attemptErr # "none"

\* C1: in an upload attempt whose probe returned 404, exactly one create
\* request is issued and no update request: none before the create, one and
\* only one once the attempt has ended.
C1_Create_On404 ==
    probeStatus = "404" =>
        /\ updates = 0
        /\ creates <= 1
        /\ (pc = "create" => creates = 0)
        /\ (AttemptEnded => creates = 1)

C1_Witness ==
    /\ probeStatus = "404"
    /\ AttemptEnded
    /\ creates = 1
    /\ updates = 0

\* C2: in an upload attempt whose probe returned 200, exactly one update
\* request is issued and no create request.
C2_Update_On200 ==
    probeStatus = "200" =>
        /\ creates = 0
        /\ updates <= 1
        /\ (pc = "update" => updates = 0)
        /\ (AttemptEnded => updates = 1)

C2_Witness ==
    /\ probeStatus = "200"
    /\ AttemptEnded
    /\ updates = 1
    /\ creates = 0

\* C3: an attempt whose probe failed in transport or was answered with a
\* status other than 404 and 200 ends with an error, and issues no create
\* and no update request.
C3_ProbeFailure_NoWrite ==
    probeStatus \in {"err", "503"} =>
        /\ creates = 0
        /\ updates = 0
        /\ pc \notin {"create", "update"}
        /\ attemptErr = (IF probeStatus = "err" THEN "retrieve" ELSE "unexpected")

C3_Witness ==
    /\ probeStatus = "503"
    /\ attemptErr = "unexpected"
    /\ pc = "retry"
    /\ creates + updates = 0

\* C4: every attempt, the first and each retry, issues its own probe, and the
\* request it then issues is the one its own probe's answer selects: a create
\* only after a 404 in this attempt, an update only after a 200 in this
\* attempt, whatever the previous attempt did.
C4_FreshProbe_PerAttempt ==
    /\ probes = (IF pc = "probe" THEN attempts - 1 ELSE attempts)
    /\ (pc = "create" \/ creates > 0) => probeStatus = "404"
    /\ (pc = "update" \/ updates > 0) => probeStatus = "200"
    /\ AttemptEnded => probeStatus # "none"

\* Attempt 1 probed 404 and failed in create; attempt 2 probed 200 and updated.
C4_Witness ==
    /\ attempts = 2
    /\ lastBranch \in {"create", "createApplied"}
    /\ probeStatus = "200"
    /\ updates = 1

\* C5: against a platform whose probe tells whether the function exists, a
\* create that was applied in an attempt that failed makes the next attempt,
\* when its probe is answered, see 200 and issue an update; a create request
\* is only issued for a slug that is absent, and no slug is created twice.
C5_LostCreate_ThenUpdate ==
    /\ \A s \in ValidSlugs : created[s] <= 1
    /\ (pc = "create" => slug \notin platform)
    /\ (lastBranch = "createApplied" /\ probeStatus \in {"404", "200"}) =>
           /\ probeStatus = "200"
           /\ creates = 0
           /\ (AttemptEnded => updates = 1)

C5_Witness ==
    /\ lastBranch = "createApplied"
    /\ attemptErr = "nil"
    /\ updates = 1
    /\ created[slug] = 1

\* deployOne for the slug at idx has returned (into deployAll's loop).
UploadReturned == pc \in {"deployAll", "done"}

\* C6: one deployOne call makes at most MaxRetries + 1 upload attempts; an
\* upload error reaches the caller only with the budget used up (a context
\* error only with the context cancelled); a successful attempt is the last;
\* and with every probe answered 503 the call fails, after the budget is used
\* up unless the context was cancelled, without any create or update request.
C6_RetryBudget ==
    /\ attempts <= MaxRetries + 1
    /\ numTries <= MaxRetries
    /\ (failedPos # 0 /\ failErr \in UploadErrs) => attempts = MaxRetries + 1
    /\ (failedPos # 0 /\ failErr = CtxErr) => ctxDone
    /\ (attemptErr = "nil" => pc \in {"retry", "deployAll", "done"})
    /\ (all503 /\ probes >= 1) => reqs = 0
    /\ (all503 /\ probes >= 1 /\ UploadReturned) =>
           /\ pc = "done"
           /\ failedPos = idx
           /\ result = failErr
           /\ \/ failErr = "unexpected" /\ attempts = MaxRetries + 1
              \/ failErr = CtxErr /\ ctxDone

C6_Witness ==
    /\ pc = "done"
    /\ all503
    /\ probes = MaxRetries + 1
    /\ result = "unexpected"
    /\ reqs = 0
    /\ ~ctxDone

\* C7: every create or update request of a deployOne call carries the
\* complete artifact (the magic tag followed by the compressed bundle) that
\* the single bundling step produced.
C7_Body_Is_Artifact ==
    (creates + updates > 0) => reqBody = artifact

\* C8: in one deployOne call the bundler is invoked at most once, and exactly
\* once before any upload attempt has started, however many attempts follow.
C8_BundleOnce ==
    /\ dockerRuns <= 1
    /\ bundleCalls <= 1
    /\ attempts >= 1 => (dockerRuns = 1 /\ bundleCalls = 1 /\ bundleOut = "ok")

C8_Witness ==
    /\ attempts = MaxRetries + 1
    /\ reqs >= 2
    /\ dockerRuns = 1

\* C9: when bundleFunction fails, deployOne returns that error at once:
\* bundling ran once, and no probe, create or update was issued for the slug.
C9_BundleError_Aborts ==
    bundleOut \in BundleErrs =>
        /\ pc = "done"
        /\ result = bundleOut
        /\ failedPos = idx
        /\ bundleCalls = 1
        /\ attempts = 0
        /\ probes = 0
        /\ reqs = 0
        /\ idx \notin uploadedPos

C9_Witness ==
    /\ bundleOut = "docker"
    /\ pc = "done"
    /\ idx = 2
    /\ ~ctxDone

\* C10: deployAll takes the slugs in the order given and stops at the first
\* failing deployOne: the slugs before it were deployed and exist on the
\* platform, the failing one had at most MaxRetries + 1 attempts, no later
\* slug was bundled or uploaded, and deployAll returns the failing error.
C10_StopAtFirstFailure ==
    /\ idx >= 1 =>
           /\ bundledPos \in {1..(idx - 1), 1..idx}
           /\ uploadedPos \subseteq bundledPos
           /\ deployedPos = 1..(idx - 1) \/ (pc = "done" /\ deployedPos = 1..idx)
    /\ failedPos # 0 =>
           /\ pc = "done"
           /\ idx = failedPos
           /\ result = failErr
           /\ result # "nil"
           /\ deployedPos = 1..(failedPos - 1)
           /\ \A k \in 1..(failedPos - 1) : slugs[k] \in platform
           /\ bundledPos = 1..failedPos
           /\ uploadedPos \subseteq 1..failedPos
           /\ attempts <= MaxRetries + 1

C10_Witness ==
    /\ pc = "done"
    /\ Len(slugs) = 3
    /\ failedPos = 2
    /\ failErr \in UploadErrs
    /\ attempts = MaxRetries + 1
    /\ deployedPos = {1}
    /\ slugs[1] \in platform
    /\ bundledPos = {1, 2}

\* Positions whose deployOne has started and has not returned.
InProgress ==
    (bundledPos \cup uploadedPos)
        \ (deployedPos \cup (IF failedPos # 0 THEN {failedPos} ELSE {}))

\* C11: deployment is sequential: at most one deployOne is in progress, it is
\* the one deployAll's loop stands at, and the bundling or upload of the slug
\* at position k + 1 has begun only if deployOne for position k returned nil,
\* also when the list names a slug twice.
C11_Sequential ==
    /\ Cardinality(InProgress) <= 1
    /\ InProgress \subseteq {idx}
    /\ \A k \in bundledPos \cup uploadedPos : k > 1 => (k - 1) \in deployedPos
    /\ \A k \in uploadedPos : k \in bundledPos

\* The list names the same slug twice and the second deployOne is uploading.
C11_Witness ==
    /\ Len(slugs) >= 2
    /\ slugs[1] = slugs[2]
    /\ idx = 2
    /\ InProgress = {2}
    /\ pc = "retry"
    /\ reqs = 1


\* The explicit list given to Run holds a slug that fails the naming pattern.
InvalidGiven ==
    /\ entry = "Run"
    /\ \E i \in Positions(argSlugs) : ~FuncSlugPattern(argSlugs[i])

\* No bundling and no network call has happened.
NothingStarted ==
    /\ bundledPos = {}
    /\ uploadedPos = {}
    /\ deployedPos = {}
    /\ bundleCalls = 0
    /\ dockerRuns = 0
    /\ probes = 0
    /\ reqs = 0

\* C12: when Run is given an explicit slug that fails the naming pattern, it
\* returns an invalid-slug error before any filesystem access and before any
\* network call.
C12_InvalidSlug_NoAccess ==
    (InvalidGiven /\ pc # "Run") =>
        /\ pc = "done"
        /\ result = "invalidSlug"
        /\ ~fsTouched
        /\ probes = 0
        /\ reqs = 0

\* C13: with an explicit list, all slugs are validated before any is bundled
\* or uploaded: if one is invalid, Run returns the error of the first invalid
\* one, and no slug of the list is bundled or deployed.
C13_ValidateAll_First ==
    (InvalidGiven /\ pc # "Run") =>
        /\ pc = "done"
        /\ result = "invalidSlug"
        /\ errSlug = argSlugs[CHOOSE i \in Positions(argSlugs) :
                                 /\ ~FuncSlugPattern(argSlugs[i])
                                 /\ \A k \in 1..(i - 1) : FuncSlugPattern(argSlugs[k])]
        /\ NothingStarted

\* C14: when Run is called with no explicit slugs and discovery yields zero
\* valid slugs, Run fails with a no-functions-found error and no bundling or
\* network call occurs.
C14_NoFunctions ==
    (entry = "Run" /\ discovered /\ Len(slugs) = 0) =>
        /\ pc = "done"
        /\ result = "noFunctions"
        /\ NothingStarted

\* Discovery ran in Run over a listing that holds only a non-function
\* directory, and Run has returned.
C14_Witness ==
    /\ entry = "Run"
    /\ argSlugs = <<>>
    /\ fsDirs = <<"@">>
    /\ discovered
    /\ pc = "done"
    /\ result = "noFunctions"


\* Positions of the matched entrypoint paths whose directory name is a slug.
MatchingPaths == {i \in Positions(fsDirs) : FuncSlugPattern(fsDirs[i])}

\* C20: discovery returns, in the order of the matched entrypoint paths,
\* exactly the parent-directory names that match the slug naming pattern; a
\* directory whose name fails the pattern is skipped without an error and
\* never appears in the work list.
C20_Discovery ==
    discovered =>
        /\ Len(slugs) = Cardinality(MatchingPaths)
        /\ \A j \in Positions(slugs) :
              \E i \in MatchingPaths :
                /\ Cardinality({k \in MatchingPaths : k <= i}) = j
                /\ slugs[j] = fsDirs[i]
        /\ \A j \in Positions(slugs) : slugs[j] \notin InvalidSlugs
        /\ result \notin {"loadConfig", "invalidSlug"}

\* Discovery ran over a listing with a non-function directory before two
\* functions, and the work list is the two functions in listing order.
C20_Witness ==
    /\ discovered
    /\ fsDirs = <<"@", "a", "b">>
    /\ slugs = <<"a", "b">>
    /\ pc = "deployAll"
    /\ idx = 1


\* The errors deployFunction returns from its create and its update branch.
CreateFailedErrs == {"createTransport", "createFailed"}

UpdateFailedErrs == {"updateTransport", "updateFailed"}

\* C16: an upload attempt succeeds only through a create answered with 201
\* and a parsed body or an update answered with 200 and a parsed body; a
\* create answered with anything else ends the attempt with a create-failed
\* error, an update answered with anything else with an update-failed error.
C16_SuccessOnly_201_200 ==
    /\ attemptErr = "nil" =>
          \/ creates = 1 /\ updates = 0 /\ reqResp = "201"
          \/ updates = 1 /\ creates = 0 /\ reqResp = "200"
    /\ (AttemptEnded /\ creates = 1 /\ reqResp # "201") =>
          attemptErr \in CreateFailedErrs
    /\ (AttemptEnded /\ updates = 1 /\ reqResp # "200") =>
          attemptErr \in UpdateFailedErrs

\* A create was answered 201 without a parsable body and the attempt ended
\* with the create-failed error.
C16_Witness ==
    /\ pc = "retry"
    /\ creates = 1
    /\ reqResp = "201nobody"
    /\ attemptErr = "createFailed"


\* C19: the success confirmation is emitted exactly once per deployOne call
\* that returns success, in the attempt that succeeded, and is never emitted
\* by an attempt that ends in an error nor by a deployOne call that fails.
C19_Confirmation_Once ==
    /\ printed <= 1
    /\ (pc \in {"retry", "sleep"} /\ attemptErr = "nil") => printed = 1
    /\ (AttemptEnded /\ attemptErr # "nil") => printed = 0
    /\ (pc \in {"bundle", "probe", "create", "update"}) => printed = 0
    /\ failedPos # 0 => printed = 0
    /\ (UploadReturned /\ failedPos = 0 /\ deployedPos # {}) => printed = 1

\* deployOne returned success from its second attempt, whose update printed
\* the one confirmation; the first attempt had failed.
C19_Witness ==
    /\ pc = "deployAll"
    /\ deployedPos = {1}
    /\ attempts = 2
    /\ attemptErr = "nil"
    /\ updates = 1
    /\ printed = 1


\* The context was cancelled during a backoff sleep or an in-flight network
\* call of deployOne.
CancelledInUpload == cancelAt \in {"sleep", "flight"}

\* C15: if the context is cancelled while deployOne is in a backoff sleep or
\* in an in-flight network call, deployOne returns an error (a cancellation
\* error for the sleep case) instead of completing successfully, starts no
\* further upload attempt for that slug, and deployAll attempts no later slug.
C15_Cancel_Stops ==
    CancelledInUpload =>
        /\ attempts = cancelAttempts
        /\ pc \in {"retry", "sleep", "done"}
        /\ idx = cancelPos
        /\ cancelPos \notin deployedPos
        /\ \A k \in bundledPos \cup uploadedPos : k <= cancelPos
        /\ attemptErr # "nil"
        /\ cancelAt = "flight" => pc # "sleep"
        /\ pc = "done" =>
              /\ failedPos = cancelPos
              /\ result = failErr
              /\ result # "nil"
              /\ cancelAt = "sleep" => result = CtxErr

\* Cancelled during the sleep after the first failed attempt of the first
\* of two slugs; the run has ended with the cancellation error.
C15_Witness ==
    /\ cancelAt = "sleep"
    /\ Len(slugs) >= 2
    /\ cancelPos = 1
    /\ cancelAttempts = 1
    /\ pc = "done"
    /\ result = CtxErr
    /\ bundledPos = {1}


\* bundleFunction has returned into deployOne, which starts the upload or
\* has returned the error.
BundleReturned == pc \in {"b_upload", "b_returned"}

\* C17 as stated: once bundleFunction has created the workspace it is removed
\* on every exit path, so no workspace exists while the upload phase runs or
\* after deployOne returns.
C17_NoWorkspace_Left ==
    BundleReturned => tempDirs = {}

\* C17, amended: once bundleFunction has created the workspace, its removal
\* is deferred and attempted on every exit path, and on those only; when the
\* removal succeeds no workspace exists while the upload phase runs or after
\* deployOne returns, when it fails the workspace stays; the failure does not
\* change bundleFunction's result, so deployOne starts the upload exactly
\* after a successful bundle.
C17_Workspace_Removal ==
    /\ bundleOut \in BundleErrs \cup {"ok", "none"}
    /\ (~BundleReturned /\ tempDirs # {}) =>
          \/ \E i \in Positions(defers) : defers[i] = "RemoveAll"
          \/ removal = "failed"
    /\ BundleReturned =>
          /\ defers = <<>>
          /\ removal # "none" <=>
                bundleOut \in {"importmap", "docker", "open", "compress", "ok"}
          /\ removal # "failed" => tempDirs = {}
          /\ removal = "failed" => tempDirs = {slug}
          /\ pc = "b_upload" <=> bundleOut = "ok"

\* The removal failed after a successful bundle: the workspace is still
\* there when the upload phase starts.
C17_Witness ==
    /\ pc = "b_upload"
    /\ bundleOut = "ok"
    /\ removal = "failed"
    /\ tempDirs = {slug}

\* C18: for every bundle byte sequence X the bundler produced, the artifact
\* body deployOne gets from bundleFunction begins with the 4-byte tag "EZBR"
\* and the bytes from offset 4 are a complete brotli stream whose
\* decompression yields exactly X.
C18_Wrap_RoundTrip ==
    pc = "b_upload" =>
        /\ artifact = compressedBody
        /\ Len(artifact) >= 4
        /\ SubSeq(artifact, 1, 4) = compressedEszipMagicId
        /\ BrotliDecode(SubSeq(artifact, 5, Len(artifact))) = rawBundle
        /\ artifact = WrapEszip(rawBundle)

\* A three-byte bundle made of the encoding's own marker values was wrapped
\* and handed to the upload.
C18_Witness ==
    /\ pc = "b_upload"
    /\ rawBundle = <<11, 6, 3>>
    /\ Len(artifact) = 10


\* C21: the verify_jwt value sent in the create or update request of a slug
\* is the one resolved for that slug: an explicit flag overrides the
\* per-function config (flag false sends true even if the config says
\* false), without a flag the config value is sent; every attempt of the
\* deployOne call sends the same value.
C21_VerifyJWT_Sent ==
    /\ Cardinality(jwtSent) <= 1
    /\ pc \in {"probe", "create", "update", "retry", "sleep"} =>
          /\ reqs > 0 => jwtSent # {}
          /\ \A v \in jwtSent :
                /\ noVerifyJWT = "true" => v = "false"
                /\ noVerifyJWT = "false" => v = "true"
                /\ noVerifyJWT = "nil" => v = functionsConfig[slug]

\* The flag false overrode a config that says false: the second slug's two
\* requests, in two attempts, both carried verify_jwt=true.
C21_Witness ==
    /\ noVerifyJWT = "false"
    /\ pc = "retry"
    /\ idx = 2
    /\ functionsConfig[slug] = "false"
    /\ attempts = 2
    /\ reqs = 2
    /\ jwtSent = {"true"}


\* C22: RunDefault fails with an error when discovery yields zero slugs:
\* whenever it deploys nothing because no function was found, it returns a
\* non-nil error, as Run does.
C22_RunDefault_NoFunctions ==
    (entry = "RunDefault" /\ discovered /\ Len(slugs) = 0) =>
        /\ pc = "done"
        /\ result \notin {"nil", "none"}


\* What deployAll has returned: success with every slug deployed, or the
\* error of the first failing slug with every slug before it deployed and
\* none after it touched.
ReturnedRight ==
    \/ /\ result = "nil"
       /\ failedPos = 0
       /\ deployedPos = Positions(slugs)
    \/ /\ result # "nil"
       /\ failedPos \in Positions(slugs)
       /\ result = failErr
       /\ deployedPos = 1..(failedPos - 1)
       /\ bundledPos \cup uploadedPos \subseteq 1..failedPos

\* The per-slug budget: one bundler invocation, MaxRetries + 1 probes and as
\* many create-or-update requests.
WithinBudget ==
    /\ bundleCalls <= 1
    /\ dockerRuns <= 1
    /\ probes <= MaxRetries + 1
    /\ reqs <= MaxRetries + 1

\* deployAll has returned to Run or RunDefault, which return its result.
DeployAllReturned == pc = "done" /\ Len(slugs) > 0

\* C23: provided every bundler invocation and every network call returns,
\* deployAll on a finite slug list always terminates, after at most one
\* bundler invocation, 4 probes and 4 create-or-update requests per slug,
\* returning either success (every slug deployed) or the error of the first
\* failing slug.
C23_Terminates ==
    /\ [](WithinBudget /\ (DeployAllReturned => ReturnedRight))
    /\ (pc = "deployAll" /\ idx = 1) ~> DeployAllReturned

\* deployAll returned success for three slugs although the last one needed
\* the whole budget of four attempts.
C23_Witness ==
    /\ DeployAllReturned
    /\ Len(slugs) = MaxSlugs
    /\ result = "nil"
    /\ deployedPos = Positions(slugs)
    /\ probes = MaxRetries + 1
    /\ reqs = MaxRetries + 1

AllTasksDone == \A t \in Tasks : taskPc[t] = "done"

Unfinished == {t \in Tasks : taskPc[t] # "done"}

\* A step of task t.
TaskStep(t) ==
    \/ task_Call(t)
    \/ task_WriteVersion(t)
    \/ t = "linkPostgrest" /\ (linkPostgrest_Read \/ linkPostgrest_Write)
    \/ t = "linkPooler" /\ (\/ linkPooler_Read
                            \/ linkPooler_Write
                            \/ linkPooler_SetConn
                            \/ linkPooler_WriteUrl)

LinkServicesReturned ==
    linkPc \in {"database", "WriteRef"} \/ (linkPc = "returned" /\ linkResult # "GetApiKeys")

\* C24: LinkServices has all six tasks started before it waits, and the
\* WaitGroup counts exactly the tasks that have not finished; it returns only
\* when every task is done, whatever each returned; a started task can always
\* take its next step, and the next go statement never waits, whatever the
\* other tasks did; link.Run links the
\* database and saves the project ref only after that, and its result is nil
\* or the error of one of its own steps, never one of a task.
C24_LinkServices_Waits_All ==
    /\ linkPc \in {"go", "Wait"} => wg = Cardinality(Unfinished)
    /\ linkPc = "Wait" => \A t \in Tasks : taskPc[t] # "idle"
    /\ LinkServicesReturned => AllTasksDone /\ wg = 0
    /\ (dbLink # "none" \/ files["ProjectRefPath"] # "absent") =>
          AllTasksDone /\ LinkServicesReturned
    /\ linkResult \in {"none", "nil", "GetApiKeys", "linkDatabase", "WriteFile"}
    /\ linkResult = "linkDatabase" <=> dbLink = "err"
    /\ linkResult = "nil" <=> files["ProjectRefPath"] = "ref"
    /\ linkPc = "go" => ENABLED LinkServices_Go
    /\ \A t \in Tasks : taskPc[t] \notin {"idle", "done"} => ENABLED TaskStep(t)

C24_Witness ==
    /\ linkPc = "returned"
    /\ linkResult = "nil"
    /\ dbLink = "ok"
    /\ taskErr["linkDatabaseVersion"] = "err"
    /\ taskErr["linkPooler"] = "err"
    /\ taskErr["linkStorageVersion"] = "nil"
    /\ files["StorageVersionPath"] = "version"
    /\ updatedConfig.Api = "copy"

\* All six tasks are running at once.
C24_Concurrent_Witness ==
    /\ linkPc = "Wait"
    /\ \A t \in Tasks : taskPc[t] \notin {"idle", "done"}
    /\ wg = Len(TaskOrder)

\* The final value each task's answer and write outcome determine.
ExpectedField(t, changedAns) ==
    IF taskAns[t] \in changedAns THEN "copy" ELSE "nil"

ExpectedVersionFile(t) ==
    IF taskErr[t] = "nil" THEN "version" ELSE "absent"

PoolerAnsweredConn == taskAns["linkPooler"] \in {"sameConn", "changedConn"}

\* The location a task may write.
OwnLocations(t) ==
    CASE t \in VersionTasks  -> {VersionPath(t)}
      [] t = "linkPostgrest" -> {"updatedConfig.Api"}
      [] t = "linkPooler"    -> {"updatedConfig.Pooler",
                                 "utils.Config.Db.Pooler.ConnectionString",
                                 "PoolerUrlPath"}
      [] OTHER               -> {}

\* C25: no location is written by one task and read or written by another
\* goroutine while the tasks run: every write of a task goes to its own field
\* or file (updatedConfig.Api for postgrest; updatedConfig.Pooler, the pooler
\* connection string and the pooler-URL file for pooler; its version file for
\* a version task), and once all six are done updatedConfig, the connection
\* string and the files hold what each task's own answer and write outcome
\* determine, whatever the order of the steps was.
C25_Tasks_Disjoint ==
    /\ \A a \in accesses, b \in accesses :
          (a[2] = b[2] /\ a[1] # b[1]) => (a[3] = "read" /\ b[3] = "read")
    /\ \A a \in accesses : a[3] = "write" => a[2] \in OwnLocations(a[1])
    /\ AllTasksDone /\ dbLink = "none" =>
          /\ updatedConfig.Api = ExpectedField("linkPostgrest", {"changed"})
          /\ updatedConfig.Pooler =
                ExpectedField("linkPooler", {"changed", "changedConn"})
          /\ updatedConfig.Db = "nil"
          /\ poolerConn = IF PoolerAnsweredConn THEN "remote" ELSE "local"
          /\ \A t \in VersionTasks : files[VersionPath(t)] = ExpectedVersionFile(t)
          /\ files["PoolerUrlPath"] =
                IF PoolerAnsweredConn /\ taskErr["linkPooler"] = "nil"
                THEN "remote" ELSE "absent"

C25_Witness ==
    /\ linkPc = "database"
    /\ AllTasksDone
    /\ updatedConfig = [Api |-> "copy", Db |-> "nil", Pooler |-> "copy"]
    /\ poolerConn = "remote"
    /\ files["PoolerUrlPath"] = "remote"
    /\ \A t \in VersionTasks : files[VersionPath(t)] = "version"
    /\ Cardinality(accesses) = 11
====
